---- MODULE Spec2Model ----
(***************************************************************************)
(* ForeverWebSocket (src/unnamed/part_001) with its three managers         *)
(* (src/src/factories/pingFactory.mjs, src/src/factories/timeoutFactory.mjs *)
(* which also holds createReconnectFactory).                               *)
(*                                                                         *)
(* The Transport is modelled at its boundary: a handle has a readyState,   *)
(* a list of attached listeners, and emits open / message / pong / error / *)
(* close.  close() and terminate() on a handle move it to CLOSING and its  *)
(* `close` event arrives later, as a separate step.  The handle supports   *)
(* on / once / off / addEventListener / removeEventListener (the Node `ws` *)
(* surface); terminate() is an optional capability (opt.hasTerminate).     *)
(* Timestamps are abstracted: 0 is `undefined`, 1 is "some Date.now()".    *)
(***************************************************************************)
EXTENDS Integers, Sequences, FiniteSets, TLC

\* ---------------------------------------------------------------- bounds
MaxHandles == 3
MaxPending == 2
MaxRetry == 2
MaxLeak == 1
MaxGrow == 3
MaxReg == 2
MaxOps == 3
MaxOpens == 2
MaxRegO == 3
MaxOpsO == 4

Handles == 1..MaxHandles

\* ------------------------------------------------------- program constants
DefaultInitialDelay == 50
DefaultMaxDelay == 10000

VARIABLES opt, ws, hs, att, pend, reg, emitter, rm, tm, pm, step, opened, sinceOpen, userClosed, cancelled, calls, hist, ops, last, pendingDelay

vars == <<opt, ws, hs, att, pend, reg, emitter, rm, tm, pm, step, opened, sinceOpen, userClosed, cancelled, calls, hist, ops, last, pendingDelay>>

\* opt, ws, hs, att, pend, reg, emitter, rm, tm, pm are the program's state.
\* The others are history variables, read by no action:
\*   step        what the last step did
\*   opened      the number of handles that have opened, counted up to MaxOpens
\*   sinceOpen   the number of `connecting` events since the last open or
\*               explicit reset, counted up to MaxRetry + 1
\*   last        the last lifecycle transition of the controller: "none",
\*               "constructed", "failed" (construction failed), "open" or
\*               "close" (the current handle opened or closed)
\*   userClosed  close() or terminate() was called and connect() not since
\*   cancelled   the constructions in flight when close()/terminate() ran
\*   calls       invocations of each caller listener, counted up to 2
\*   hist        how each caller listener was registered: "none", "on",
\*               "addEventListener", "once", or "gone" once it was removed
\*               or registered a second time
\*   ops         the number of caller operations so far
\*   pendingDelay  the retry number of the last `delay` emitted and not yet
\*               followed by a `connecting`, 0 if there is none
ghosts == <<opened, sinceOpen, userClosed, cancelled>>

\* a caller operation, within the bound on their number
Caller == ops < MaxOps /\ ops' = ops + 1

Min(a, b) == IF a <= b THEN a ELSE b

\* ------------------------------------------------------------ the Transport
\* hs[h] is the readyState of handle h, "NONE" when no such handle exists.
\* handle.close() / handle.terminate(): the closing handshake starts (or the
\* socket is destroyed); the `close` event follows asynchronously.
HandleClose(h, H) ==
  IF H[h] \in {"CONNECTING", "OPEN"} THEN [H EXCEPT ![h] = "CLOSING"] ELSE H

\* A handle that is CLOSED and no longer referenced emits nothing more.
Collect(H, w) ==
  [h \in Handles |-> IF H[h] = "CLOSED" /\ h # w THEN "NONE" ELSE H[h]]

CollectAtt(A, H, w) ==
  [h \in Handles |-> IF H[h] = "CLOSED" /\ h # w THEN <<>> ELSE A[h]]

FreeIds(H) == {h \in Handles : H[h] = "NONE"}

NewId(H) == CHOOSE h \in FreeIds(H) : \A k \in FreeIds(H) : h <= k

\* ---------------------------------------------------------------- events
Ev(e, n, v) == [ev |-> e, n |-> n, v |-> v]

\* step records what the last step did: the operation, the handle it concerns,
\* the events the controller emitted, the caller listeners invoked, whether a
\* Transport was constructed, whether the operation raised, what it handed
\* to a handle for transmission, and the argument of the call where a
\* property reads it.
NoStep == [act |-> "init", h |-> 0, emits |-> <<>>, invoked |-> <<>>, built |-> FALSE, threw |-> FALSE, sent |-> <<>>, arg |-> <<>>]

St(a, h, em, inv, b) == [act |-> a, h |-> h, emits |-> em, invoked |-> inv, built |-> b, threw |-> FALSE, sent |-> <<>>, arg |-> <<>>]

Threw(a) == [act |-> a, h |-> 0, emits |-> <<>>, invoked |-> <<>>, built |-> FALSE, threw |-> TRUE, sent |-> <<>>, arg |-> <<>>]

RECURSIVE AfterEmits(_, _, _)
\* pendingDelay after the events em[i..] have been emitted
AfterEmits(p, em, i) ==
  IF i > Len(em) THEN p
  ELSE AfterEmits(IF em[i].ev = "delay" THEN em[i].n
                  ELSE IF em[i].ev = "connecting" THEN 0 ELSE p, em, i + 1)

Emitted == pendingDelay' = AfterEmits(pendingDelay, step'.emits, 1)

\* ------------------------------------------------ createReconnectFactory
hasReconnect == opt.reconnect # "null"

\* The manager's variables, with two counters the code does not keep: leaked,
\* the timers armed and neither fired nor cleared that timeoutId no longer
\* names, and scheduled, the scheduleNextConnect() calls since the last reset().
\* _factor is held in tenths (15 is 1.5); the configurations used keep
\* delay * _factor a whole number.

ReconnectInit(c) ==
  [_strategy |-> c.strategy, _initialDelay |-> c.initialDelay, _maxDelay |-> c.maxDelay,
   _randomizeDelay |-> c.randomizeDelay, _factor |-> c.factor,
   lastConnectedMts |-> 0, isStopped |-> FALSE, retryNumber |-> 0,
   previousDelay |-> 0, delay |-> 0, nextDelay |-> c.initialDelay,
   timeoutId |-> FALSE, leaked |-> 0, scheduled |-> 0]

\* Math.round(d * (1 + Math.random() * 0.2)) for Math.random() 0 and just under 1
JitterSteps == {0, 10}

Randomized(d, j) == (d * (100 + 2 * j) + 50) \div 100

\* a backoff that doubles whatever the strategy
getNextDelay_doubling(r) == r.delay * 2

getNextDelay(r) ==
  IF r._strategy = "fibonacci" THEN r.delay + r.previousDelay
  ELSE (r.delay * r._factor) \div 10

\* a delay that is not clamped to maxDelay
randomizedDelay_unclamped(r, j) ==
  IF r._randomizeDelay THEN Randomized(r.nextDelay, j) ELSE r.nextDelay

randomizedDelay(r, j) ==
  IF r._randomizeDelay THEN Randomized(Min(r.nextDelay, r._maxDelay), j)
  ELSE Min(r.nextDelay, r._maxDelay)

\* the timer armed by an earlier call is not cleared: it stays outstanding
scheduleNextConnect(r) ==
  LET r1 == [r EXCEPT !.lastConnectedMts = 1, !.isStopped = FALSE,
                      !.previousDelay = r.delay, !.delay = r.nextDelay,
                      !.leaked = IF r.timeoutId THEN r.leaked + 1 ELSE r.leaked,
                      !.timeoutId = TRUE, !.scheduled = r.scheduled + 1]
  IN [r1 EXCEPT !.nextDelay = getNextDelay(r1)]

callbackStartDelay(r, j) == Ev("delay", r.retryNumber + 1, randomizedDelay(r, j))

reconnect_reset(r) ==
  [r EXCEPT !.isStopped = FALSE, !.timeoutId = FALSE, !.retryNumber = 0,
            !.previousDelay = 0, !.delay = 0, !.nextDelay = r._initialDelay,
            !.lastConnectedMts = 0, !.scheduled = 0]

reconnect_stop(r) == [r EXCEPT !.isStopped = TRUE, !.timeoutId = FALSE]

\* update(p): "" and 0 stand for a field that p does not supply
reconnect_update(r, p) ==
  reconnect_reset([r EXCEPT !._strategy = IF p.strategy = "" THEN @ ELSE p.strategy,
                            !._initialDelay = IF p.initialDelay = 0 THEN @ ELSE p.initialDelay,
                            !._maxDelay = IF p.maxDelay = 0 THEN @ ELSE p.maxDelay,
                            !._randomizeDelay = IF p.randomizeDelay = "" THEN @
                                                ELSE p.randomizeDelay = "true",
                            !._factor = IF p.factor = 0 THEN @ ELSE p.factor])

\* bound of the model: scheduleNextConnect may be called when the backoff has
\* not grown past MaxGrow terms and at most MaxLeak timers are outstanding
CanSchedule(r) ==
  /\ r.nextDelay <= r._initialDelay * (2 ^ MaxGrow)
  /\ (r.timeoutId => r.leaked < MaxLeak)

\* --------------------------------------------------- createTimeoutFactory
hasTimeout == opt.timeout

\* The watchdog's variables: _timeout, lastActiveMts, and timeoutId, which is
\* "null" (undefined or null), "armed" or "fired" (a timer that has run and
\* that timeoutId still names).  dur is the duration the timer timeoutId
\* names was created with, 0 when there is none; refresh tells whether the
\* platform's timers have refresh() (Node) or are plain ids (browsers).
\* A timer that is armed fires at lastActiveMts + dur.
TimeoutInit(to, re) ==
  [_timeout |-> to, timeoutId |-> "null", lastActiveMts |-> 0, dur |-> 0, refresh |-> re]

\* the else branch of reset(): clearTimeout and a new setTimeout(..., _timeout)
cancelAndRecreate(t, now) ==
  [t EXCEPT !.timeoutId = "armed", !.lastActiveMts = now, !.dur = t._timeout]

\* lastActiveMts = Date.now(): the time is kept as the handle whose open,
\* message or pong is being handled, 0 when reset() runs for no handle event.
\* timeoutId.refresh() restarts the timer timeoutId names, with its duration.
timeout_reset(t, now) ==
  IF t.refresh /\ t.timeoutId # "null"
  THEN [t EXCEPT !.timeoutId = "armed", !.lastActiveMts = now]
  ELSE cancelAndRecreate(t, now)

timeout_stop(t) == [t EXCEPT !.timeoutId = "null", !.dur = 0]

timeout_update(t, to, now) == timeout_reset([t EXCEPT !._timeout = to], now)

\* the timeout updateOptions({ timeout }) sets, the constructor's being 1
Timeouts == {2}

\* ------------------------------------------------------ createPingFactory
hasPing == opt.ping

\* setInterval without clearing the interval intervalId already names
ping_start(p) ==
  [active |-> TRUE, leaked |-> IF p.active THEN p.leaked + 1 ELSE p.leaked]

ping_stop(p) == [p EXCEPT !.active = FALSE]

CanStartPing(p) == p.active => p.leaked < MaxLeak

\* this.#pingManager?.stop(); this.#timeoutManager?.stop()
StopPing(p) == IF hasPing THEN ping_stop(p) ELSE p

StopTimeout(t) == IF hasTimeout THEN timeout_stop(t) ELSE t

\* ------------------------------------------------------- listener registry
Listeners == {"f", "g"}

ListenEvents == {"open", "message", "close", "error"}

\* a record of #listenersWebSocket[ev]; reg keeps the records of all event
\* names in one sequence, the records of one event name in their array order
Record(e, f, m) == [ev |-> e, fn |-> f, once |-> (m = "once"), method |-> m]

\* an attachment on a handle: kind is how it was attached ("on", "once",
\* "ael" for addEventListener) or "remover" for the { once: true } closure
\* that takes the once-record out of the registry
Att(e, f, k) == [ev |-> e, fn |-> f, kind |-> k]

RECURSIVE IndexOf(_, _, _)
\* findIndex: the first position at or after i whose element is in S, 0 if none
IndexOf(s, S, i) ==
  IF i > Len(s) THEN 0 ELSE IF s[i] \in S THEN i ELSE IndexOf(s, S, i + 1)

RECURSIVE LastIndexOf(_, _, _)
LastIndexOf(s, S, i) ==
  IF i < 1 THEN 0 ELSE IF s[i] \in S THEN i ELSE LastIndexOf(s, S, i - 1)

\* splice(index, 1)
Splice(s, i) ==
  IF i = 0 THEN s ELSE [k \in 1..(Len(s) - 1) |-> IF k < i THEN s[k] ELSE s[k + 1]]

\* #registerEventListener
registerEventListener(R, e, f, m) == Append(R, Record(e, f, m))

\* #deregisterEventListener: the first record of the event with that listener
deregisterEventListener(R, e, f) ==
  Splice(R, IndexOf(R, {Record(e, f, m) : m \in {"on", "once", "addEventListener"}}, 1))

\* the remover closure: findIndex(elem.listener === listener && elem.options?.once)
RemoverRun(R, e, f) == Splice(R, IndexOf(R, {Record(e, f, "once")}, 1))

\* #attachEventListener on a handle's attachment list a.  addEventListener
\* ignores a handler already attached through addEventListener; on and once
\* do not.
attachEventListener(a, r) ==
  LET a1 == IF r.once THEN Append(a, Att(r.ev, r.fn, "remover")) ELSE a
  IN IF r.method = "addEventListener"
     THEN IF IndexOf(a1, {Att(r.ev, r.fn, "ael")}, 1) # 0 THEN a1
          ELSE Append(a1, Att(r.ev, r.fn, "ael"))
     ELSE Append(a1, Att(r.ev, r.fn, r.method))

\* #detachEventListener: removeEventListener takes the first addEventListener
\* attachment, off the last on/once attachment
detachEventListener(a, e, f) ==
  LET a1 == Splice(a, IndexOf(a, {Att(e, f, "ael")}, 1))
  IN Splice(a1, LastIndexOf(a1, {Att(e, f, "on"), Att(e, f, "once")}, Len(a1)))

\* a controller that does not replay the registry onto a new handle
reattachEventListeners_none(a, R, i) == a

RECURSIVE reattachEventListeners(_, _, _)
\* #reattachEventListeners: the registry replayed in order from position i
reattachEventListeners(a, R, i) ==
  IF i > Len(R) THEN a
  ELSE reattachEventListeners(attachEventListener(a, R[i]), R, i + 1)

RECURSIVE DetachAll(_, _, _)
\* #cleanupWebSocket: every registered listener detached from the old handle
DetachAll(a, R, i) ==
  IF i > Len(R) THEN a
  ELSE DetachAll(detachEventListener(a, R[i].ev, R[i].fn), R, i + 1)

\* A handle emits event e: its listeners run in attachment order.
RECURSIVE RegAfter(_, _, _, _)
RegAfter(R, a, e, i) ==
  IF i > Len(a) THEN R
  ELSE RegAfter(IF a[i].ev = e /\ a[i].kind = "remover" THEN RemoverRun(R, e, a[i].fn) ELSE R,
                a, e, i + 1)

Invoked(a, e) ==
  LET s == SelectSeq(a, LAMBDA x : x.ev = e /\ x.kind # "remover")
  IN [k \in 1..Len(s) |-> s[k].fn]

AttAfter(a, e) == SelectSeq(a, LAMBDA x : ~(x.ev = e /\ x.kind \in {"remover", "once"}))

\* the controller's own emitter (super.on / super.once), kept for the event
\* names the controller itself emits to caller listeners: `error`
EmitterInvoked(E, e) ==
  LET s == SelectSeq(E, LAMBDA x : x.ev = e)
  IN [k \in 1..Len(s) |-> s[k].fn]

EmitterAfter(E, e) == SelectSeq(E, LAMBDA x : ~(x.ev = e /\ x.once))

RECURSIVE Bump(_, _, _)
\* calls counts, up to 2, the invocations of each listener
Bump(c, s, i) ==
  IF i > Len(s) THEN c
  ELSE Bump([c EXCEPT ![s[i]] = Min(@ + 1, 2)], s, i + 1)

\* ------------------------------------------------------------- connect()
ReconnectConfigs ==
  [missing |-> [strategy |-> "fibonacci", initialDelay |-> DefaultInitialDelay,
                maxDelay |-> DefaultMaxDelay, randomizeDelay |-> TRUE, factor |-> 15],
   null    |-> [strategy |-> "fibonacci", initialDelay |-> DefaultInitialDelay,
                maxDelay |-> DefaultMaxDelay, randomizeDelay |-> TRUE, factor |-> 15],
   object  |-> [strategy |-> "exponential", initialDelay |-> 100,
                maxDelay |-> 300, randomizeDelay |-> FALSE, factor |-> 20]]

JS(r) == IF r._randomizeDelay THEN JitterSteps ELSE {0}

\* a controller that schedules the next attempt without asking whether
\* reconnection is enabled and not stopped
MaybeSchedule_always(r) ==
  {<<scheduleNextConnect(r), <<callbackStartDelay(r, j)>>>> : j \in JS(r)}

\* if (this.#reconnectManager && !this.#reconnectManager.isStopped())
\*   this.#reconnectManager.scheduleNextConnect()
\* as the set of <<manager state, events emitted>> it can produce
MaybeSchedule(r) ==
  IF hasReconnect /\ ~r.isStopped
  THEN {<<scheduleNextConnect(r), <<callbackStartDelay(r, j)>>>> : j \in JS(r)}
  ELSE {<<r, <<>>>>}

WillSchedule(r) == hasReconnect /\ ~r.isStopped

\* a controller whose connect() never takes the early return
isWebSocketOpen_never == FALSE

isWebSocketOpen == ws # 0 /\ hs[ws] = "OPEN"

\* #cleanupWebSocket: listeners detached, handle closed or terminated, this.ws = null
cleanupHs == IF ws = 0 THEN hs ELSE Collect(HandleClose(ws, hs), 0)

cleanupAtt ==
  IF ws = 0 THEN att
  ELSE CollectAtt([att EXCEPT ![ws] = DetachAll(@, reg, 1)], HandleClose(ws, hs), 0)

\* the catch block of connect(): emit('error'), this.ws = null, schedule;
\* x is what the step records as its argument
ConstructionFailedArg(a, r0, em0, H, A, x) ==
  /\ WillSchedule(r0) => CanSchedule(r0)
  /\ \E o \in MaybeSchedule(r0) :
       /\ rm' = o[1]
       /\ step' = [St(a, 0, em0 \o <<Ev("error", 0, 0)>> \o o[2], EmitterInvoked(emitter, "error"), FALSE)
                     EXCEPT !.arg = x]
  /\ ws' = 0
  /\ hs' = Collect(H, 0)
  /\ att' = CollectAtt(A, H, 0)
  /\ emitter' = EmitterAfter(emitter, "error")
  /\ calls' = Bump(calls, EmitterInvoked(emitter, "error"), 1)
  /\ last' = "failed"
  /\ UNCHANGED reg

ConstructionFailed(a, r0, em0, H, A) == ConstructionFailedArg(a, r0, em0, H, A, <<>>)

\* the tail of connect() once the Transport exists: this.ws = h, reset the
\* reconnect manager, lifecycle hooks, registry replay
AdoptArg(a, h, r0, em0, H, A, b, x) ==
  /\ ws' = h
  /\ hs' = Collect(H, h)
  /\ att' = [CollectAtt(A, H, h) EXCEPT ![h] = reattachEventListeners(<<>>, reg, 1)]
  /\ rm' = IF hasReconnect THEN reconnect_reset(r0) ELSE r0
  /\ step' = [St(a, h, em0, <<>>, b) EXCEPT !.arg = x]
  /\ last' = "constructed"
  /\ UNCHANGED <<reg, emitter, calls>>

Adopt(a, h, r0, em0, H, A, b) == AdoptArg(a, h, r0, em0, H, A, b, <<>>)

\* connect() run by a (caller or reconnect timer), the reconnect manager being
\* in state r0 and em0 already emitted in this step
connect(a, r0, em0) ==
  IF isWebSocketOpen
  THEN /\ rm' = r0
       /\ step' = St(a, 0, em0, <<>>, FALSE)
       /\ UNCHANGED <<ws, hs, att, pend, reg, emitter, tm, pm, calls, last>>
  ELSE /\ tm' = StopTimeout(tm)
       /\ pm' = StopPing(pm)
       /\ IF opt.factory
          THEN \* this.ws = await this.#optionsExtended.createWebSocket()
               /\ FreeIds(cleanupHs) # {}
               /\ Cardinality(pend) < MaxPending
               /\ hs' = [cleanupHs EXCEPT ![NewId(cleanupHs)] = "CONNECTING"]
               /\ pend' = pend \cup {NewId(cleanupHs)}
               /\ ws' = 0
               /\ att' = cleanupAtt
               /\ rm' = r0
               /\ step' = St(a, 0, em0, <<>>, TRUE)
               /\ UNCHANGED <<reg, emitter, calls, last>>
          ELSE \* this.ws = new WebSocket(...)
               /\ pend' = pend
               /\ \/ /\ FreeIds(cleanupHs) # {}
                     /\ Adopt(a, NewId(cleanupHs), r0, em0,
                              [cleanupHs EXCEPT ![NewId(cleanupHs)] = "CONNECTING"], cleanupAtt, TRUE)
                  \/ ConstructionFailed(a, r0, em0, cleanupHs, cleanupAtt)

\* the caller calls connect()
Connect ==
  /\ Caller
  /\ connect("connect()", rm, <<>>)
  /\ userClosed' = FALSE
  /\ UNCHANGED <<opt, opened, sinceOpen, cancelled, hist>>
  /\ Emitted

RECURSIVE DetachExcept(_, _, _, _)
\* #cleanupWebSocket when #detachEventListener raises for the records at the
\* positions F: removeEventListener raised, nothing of that record is detached
DetachExcept(a, R, i, F) ==
  IF i > Len(R) THEN a
  ELSE DetachExcept(IF i \in F THEN a ELSE detachEventListener(a, R[i].ev, R[i].fn), R, i + 1, F)

\* a connect() that lets an error of the teardown reach its caller
TeardownRaises_propagating(a, r0, em0, F, c) ==
  /\ ws # 0 /\ ~isWebSocketOpen /\ ~opt.factory
  /\ F \subseteq 1..Len(reg)
  /\ F # {} \/ c
  /\ c => hs[ws] # "CLOSED"
  /\ step' = [Threw(a) EXCEPT !.arg = <<F, c>>]
  /\ rm' = r0
  /\ UNCHANGED <<ws, hs, att, pend, reg, emitter, tm, pm, calls, last>>

\* connect() replacing a handle whose teardown raises: #detachEventListener
\* raises for the records at the positions F, and close()/terminate() raises
\* if c; every error is caught inside #cleanupWebSocket
TeardownRaises(a, r0, em0, F, c) ==
  /\ ws # 0 /\ ~isWebSocketOpen /\ ~opt.factory
  /\ F \subseteq 1..Len(reg)
  /\ F # {} \/ c
  /\ c => hs[ws] # "CLOSED"
  /\ tm' = StopTimeout(tm)
  /\ pm' = StopPing(pm)
  /\ pend' = pend
  /\ LET H0 == IF c THEN hs ELSE HandleClose(ws, hs)
         H == Collect(H0, 0)
         A == CollectAtt([att EXCEPT ![ws] = DetachExcept(@, reg, 1, F)], H0, 0)
     IN \/ /\ FreeIds(H) # {}
           /\ AdoptArg(a, NewId(H), r0, em0, [H EXCEPT ![NewId(H)] = "CONNECTING"], A, TRUE, <<F, c>>)
        \/ ConstructionFailedArg(a, r0, em0, H, A, <<F, c>>)

\* the caller calls connect() and the teardown of the old handle raises
ConnectTeardownRaises(F, c) ==
  /\ Caller
  /\ TeardownRaises("connect()", rm, <<>>, F, c)
  /\ userClosed' = FALSE
  /\ UNCHANGED <<opt, opened, sinceOpen, cancelled, hist>>
  /\ Emitted

\* a reconnect timer fires: retryNumber += 1, `connecting`, connect().
\* which is "timeoutId" for the timer the manager still names, "leaked" for
\* one armed by an earlier scheduleNextConnect and never cleared.
ReconnectFire(which) ==
  /\ ops' = ops
  /\ hasReconnect
  /\ rm.retryNumber < MaxRetry
  /\ IF which = "timeoutId" THEN rm.timeoutId ELSE rm.leaked > 0
  /\ LET r0 == IF which = "timeoutId"
               THEN [rm EXCEPT !.retryNumber = @ + 1, !.timeoutId = FALSE]
               ELSE [rm EXCEPT !.retryNumber = @ + 1, !.leaked = @ - 1]
     IN /\ connect("reconnectTimer", r0, <<Ev("connecting", r0.retryNumber, r0.lastConnectedMts)>>)
        /\ sinceOpen' = Min(sinceOpen + 1, MaxRetry + 1)
  /\ UNCHANGED <<opt, opened, userClosed, cancelled, hist>>
  /\ Emitted

\* the createWebSocket promise of a connect() in flight resolves with handle h
AwaitResolve(h) ==
  /\ ops' = ops
  /\ h \in pend
  /\ pend' = pend \ {h}
  /\ cancelled' = cancelled \ {h}
  /\ Adopt(IF h \in cancelled THEN "resolveAfterClose" ELSE "resolve", h, rm, <<>>, hs, att, FALSE)
  /\ UNCHANGED <<opt, tm, pm, opened, sinceOpen, userClosed, hist>>
  /\ Emitted

\* the createWebSocket promise of a connect() in flight rejects
AwaitReject(h) ==
  /\ ops' = ops
  /\ h \in pend
  /\ pend' = pend \ {h}
  /\ cancelled' = cancelled \ {h}
  /\ ConstructionFailed("reject", rm, <<>>, [hs EXCEPT ![h] = "NONE"], att)
  /\ UNCHANGED <<opt, tm, pm, opened, sinceOpen, userClosed, hist>>
  /\ Emitted

\* the handle of a construction in flight opens before the createWebSocket
\* promise resolves: the controller does not hold it yet, nothing is attached
PendingOpen(h) ==
  /\ ops' = ops
  /\ h \in pend
  /\ hs[h] = "CONNECTING"
  /\ hs' = [hs EXCEPT ![h] = "OPEN"]
  /\ step' = St("open", h, <<>>, <<>>, FALSE)
  /\ UNCHANGED <<opt, ws, att, pend, reg, emitter, rm, tm, pm, calls, hist, last>>
  /\ UNCHANGED ghosts
  /\ Emitted

\* ------------------------------------------------------- transport events
\* Only adopted handles carry lifecycle hooks and listeners.
Adopted(h) == hs[h] # "NONE" /\ h \notin pend

\* the caller listeners of handle h for event e run; removers edit the registry
Deliver(h, e, H) ==
  /\ reg' = RegAfter(reg, att[h], e, 1)
  /\ att' = CollectAtt([att EXCEPT ![h] = AttAfter(@, e)], H, ws)
  /\ calls' = Bump(calls, Invoked(att[h], e), 1)

\* handle h emits `open`
TransportOpen(h) ==
  /\ ops' = ops
  /\ Adopted(h)
  /\ hs[h] = "CONNECTING"
  /\ hasPing => CanStartPing(pm)
  /\ hs' = [hs EXCEPT ![h] = "OPEN"]
  /\ pm' = IF hasPing THEN ping_start(pm) ELSE pm
  /\ tm' = IF hasTimeout THEN timeout_reset(tm, h) ELSE tm
  /\ rm' = IF hasReconnect THEN reconnect_reset(rm) ELSE rm
  /\ step' = St("open", h,
                IF hasReconnect /\ rm.lastConnectedMts # 0
                THEN <<Ev("reconnected", rm.retryNumber, rm.lastConnectedMts)>> ELSE <<>>,
                Invoked(att[h], "open"), FALSE)
  /\ Deliver(h, "open", hs')
  /\ opened' = Min(opened + 1, MaxOpens)
  /\ last' = IF h = ws THEN "open" ELSE last
  /\ sinceOpen' = 0
  /\ UNCHANGED <<opt, ws, pend, emitter, userClosed, cancelled, hist>>
  /\ Emitted

\* handle h emits `message` (e = "message") or `pong` (e = "pong")
TransportMessage(h, e) ==
  /\ ops' = ops
  /\ Adopted(h)
  /\ hs[h] = "OPEN"
  /\ tm' = IF hasTimeout THEN timeout_reset(tm, h) ELSE tm
  /\ step' = St(e, h, <<>>, Invoked(att[h], e), FALSE)
  /\ Deliver(h, e, hs)
  /\ UNCHANGED <<opt, ws, hs, pend, emitter, rm, pm, hist, last>>
  /\ UNCHANGED ghosts
  /\ Emitted

\* handle h emits `error`: the connection failed and is being closed
TransportError(h) ==
  /\ ops' = ops
  /\ Adopted(h)
  /\ hs[h] \in {"CONNECTING", "OPEN"}
  /\ hs' = [hs EXCEPT ![h] = "CLOSING"]
  /\ step' = St("error", h, <<>>, Invoked(att[h], "error"), FALSE)
  /\ Deliver(h, "error", hs')
  /\ UNCHANGED <<opt, ws, pend, emitter, rm, tm, pm, hist, last>>
  /\ UNCHANGED ghosts
  /\ Emitted

\* handle h emits `close`
TransportClose(h) ==
  /\ ops' = ops
  /\ Adopted(h)
  /\ hs[h] \in {"OPEN", "CLOSING"}
  /\ WillSchedule(rm) => CanSchedule(rm)
  /\ hs' = Collect([hs EXCEPT ![h] = "CLOSED"], ws)
  /\ pm' = StopPing(pm)
  /\ tm' = StopTimeout(tm)
  /\ \E o \in MaybeSchedule(rm) :
       /\ rm' = o[1]
       /\ step' = St("close", h, o[2], Invoked(att[h], "close"), FALSE)
  /\ Deliver(h, "close", [hs EXCEPT ![h] = "CLOSED"])
  /\ last' = IF h = ws THEN "close" ELSE last
  /\ UNCHANGED <<opt, ws, pend, emitter, hist>>
  /\ UNCHANGED ghosts
  /\ Emitted

\* ------------------------------------------------------------- send(data)
\* a payload is known by what `typeof` and the Transport can tell of it: its
\* kind, and for a text whether it is the JSON text of a value of some kind
Data(k) == [kind |-> k, json |-> "none"]

\* typeof data
typeOf(d) ==
  IF d.kind \in {"object", "array", "null", "Buffer", "ArrayBuffer"} THEN "object" ELSE d.kind

\* JSON.stringify(data): a text, and not the text a caller may pass as a string
JSONstringify(d) == [kind |-> "string", json |-> d.kind]

\* what send(data) hands to the handle's send
sendData(d) == IF typeOf(d) = "object" THEN JSONstringify(d) ELSE d

\* a transmission: handle h is handed data, made from the argument arg, as
\* an ordinary message or as a protocol ping frame
Tx(h, how, arg, d) == [to |-> h, how |-> how, arg |-> arg, data |-> d]

Payloads == {Data(k) : k \in {"string", "number", "object", "Buffer", "ArrayBuffer"}}

\* send(data): this.ws.send(...).  With no handle the property access raises.
\* The handle's own send raises while it is CONNECTING; on a handle that is
\* CLOSING or CLOSED the Transport decides (the `ws` package and the browser
\* WebSocket discard the data and raise nothing).
Send(d) ==
  /\ Caller
  /\ IF ws = 0 \/ hs[ws] = "CONNECTING"
     THEN step' = Threw("send()")
     ELSE IF hs[ws] = "OPEN"
     THEN step' = [St("send()", ws, <<>>, <<>>, FALSE) EXCEPT !.sent = <<Tx(ws, "message", d, sendData(d))>>]
     ELSE \E raises \in BOOLEAN :
            step' = IF raises THEN Threw("send()") ELSE St("send()", ws, <<>>, <<>>, FALSE)
  /\ UNCHANGED <<opt, ws, hs, att, pend, reg, emitter, rm, tm, pm, calls, hist, last>>
  /\ UNCHANGED ghosts
  /\ Emitted

\* ---------------------------------------------------- caller operations
\* a refresh() that also stops the reconnect manager, as close() does
Refresh_stopping ==
  /\ Caller
  /\ IF ws = 0
     THEN step' = Threw("refresh()") /\ hs' = hs
     ELSE step' = St("refresh()", ws, <<>>, <<>>, FALSE) /\ hs' = HandleClose(ws, hs)
  /\ rm' = IF hasReconnect THEN reconnect_stop(rm) ELSE rm
  /\ UNCHANGED <<opt, ws, att, pend, reg, emitter, tm, pm, calls, hist, last>>
  /\ UNCHANGED ghosts
  /\ Emitted

\* refresh(code, reason): this.ws.close(code, reason)
Refresh ==
  /\ Caller
  /\ IF ws = 0
     THEN step' = Threw("refresh()") /\ hs' = hs
     ELSE step' = St("refresh()", ws, <<>>, <<>>, FALSE) /\ hs' = HandleClose(ws, hs)
  /\ UNCHANGED <<opt, ws, att, pend, reg, emitter, rm, tm, pm, calls, hist, last>>
  /\ UNCHANGED ghosts
  /\ Emitted

\* close(code, reason) and terminate(); a handle without terminate() is
\* closed, and either way its `close` event follows
CloseOrTerminate(a) ==
  /\ Caller
  /\ pm' = StopPing(pm)
  /\ tm' = StopTimeout(tm)
  /\ rm' = IF hasReconnect THEN reconnect_stop(rm) ELSE rm
  /\ hs' = IF ws = 0 THEN hs ELSE HandleClose(ws, hs)
  /\ step' = St(a, ws, <<>>, <<>>, FALSE)
  /\ userClosed' = TRUE
  /\ cancelled' = pend
  /\ UNCHANGED <<opt, ws, att, pend, reg, emitter, opened, sinceOpen, calls, hist, last>>
  /\ Emitted

close == CloseOrTerminate("close()")

terminate == CloseOrTerminate("terminate()")

\* the partial reconnect configurations updateOptions is called with
\* ("" and 0 stand for a field that is not supplied)
NoPartial == [strategy |-> "", initialDelay |-> 0, maxDelay |-> 0, randomizeDelay |-> "", factor |-> 0]

Partials == {NoPartial, [NoPartial EXCEPT !.strategy = "fibonacci"]}

\* updateOptions({ reconnect: p }), updateOptions({ timeout }) and
\* updateOptions({ ping }), one key per call
updateOptions(k) ==
  /\ Caller
  /\ \/ /\ k = "reconnect"
        /\ IF hasReconnect
           THEN \E p \in Partials :
                  /\ rm' = reconnect_update(rm, p)
                  /\ step' = St("updateReconnect", 0, <<>>, <<>>, FALSE)
                  /\ sinceOpen' = 0
           ELSE rm' = rm /\ step' = Threw("updateReconnect") /\ sinceOpen' = sinceOpen
        /\ tm' = tm
     \/ /\ k = "timeout"
        /\ IF hasTimeout
           THEN /\ \E to \in Timeouts : tm' = timeout_update(tm, to, 0)
                /\ step' = St("updateTimeout", 0, <<>>, <<>>, FALSE)
           ELSE tm' = tm /\ step' = Threw("updateTimeout")
        /\ rm' = rm /\ sinceOpen' = sinceOpen
     \/ /\ k = "ping"
        /\ step' = Threw("updatePing")
        /\ rm' = rm /\ tm' = tm /\ sinceOpen' = sinceOpen
  /\ UNCHANGED <<opt, ws, hs, att, pend, reg, emitter, pm, opened, userClosed, cancelled, calls, hist, last>>
  /\ Emitted

\* ------------------------------------------------------------ the timers
\* the watchdog timer fires: emit('timeout', lastActiveMts); this.refresh()
WatchdogFire ==
  /\ ops' = ops
  /\ hasTimeout
  /\ tm.timeoutId = "armed"
  /\ tm' = [tm EXCEPT !.timeoutId = "fired"]
  /\ IF ws = 0
     THEN /\ step' = [Threw("watchdog") EXCEPT !.emits = <<Ev("timeout", 0, tm.lastActiveMts)>>]
          /\ hs' = hs
     ELSE /\ step' = St("watchdog", ws, <<Ev("timeout", 0, tm.lastActiveMts)>>, <<>>, FALSE)
          /\ hs' = HandleClose(ws, hs)
  /\ UNCHANGED <<opt, ws, att, pend, reg, emitter, rm, pm, calls, hist, last>>
  /\ UNCHANGED ghosts
  /\ Emitted

\* a tick that sends a ping frame whenever ping.frame is set, without asking
\* whether the controller has a ping method
pingCallback_noFallback ==
  IF opt.frame
  THEN <<Tx(ws, "ping", opt.pingData, opt.pingData)>>
  ELSE <<Tx(ws, "message", opt.pingData, sendData(opt.pingData))>>

\* what a tick hands to the open handle: this.ping(data, mask) when the
\* controller has a ping method and ping.frame is set, this.send(data) otherwise
pingCallback ==
  IF opt.pingMethod /\ opt.frame
  THEN <<Tx(ws, "ping", opt.pingData, opt.pingData)>>
  ELSE <<Tx(ws, "message", opt.pingData, sendData(opt.pingData))>>

\* a keepalive interval ticks: ping or send when readyState is OPEN
PingTick ==
  /\ ops' = ops
  /\ hasPing
  /\ pm.active \/ pm.leaked > 0
  /\ step' = IF isWebSocketOpen
             THEN [St("pingTick", ws, <<Ev("ping", 0, 0)>>, <<>>, FALSE) EXCEPT !.sent = pingCallback]
             ELSE St("pingTick", ws, <<>>, <<>>, FALSE)
  /\ UNCHANGED <<opt, ws, hs, att, pend, reg, emitter, rm, tm, pm, calls, hist, last>>
  /\ UNCHANGED ghosts
  /\ Emitted

\* --------------------------------------------------- listener operations
OwnEmits == {"error"}

NextHist(f, m) == [hist EXCEPT ![f] = IF @ = "none" THEN m ELSE "gone"]

\* on (m = "on"), addEventListener and once: register, attach to the live
\* handle, super.on / super.once
Register(e, f, m) ==
  /\ hist[f] # "gone"
  /\ reg' = registerEventListener(reg, e, f, m)
  /\ att' = IF ws = 0 THEN att
            ELSE [att EXCEPT ![ws] = attachEventListener(@, Record(e, f, m))]
  /\ emitter' = IF e \in OwnEmits
                THEN Append(emitter, [ev |-> e, fn |-> f, once |-> (m = "once")])
                ELSE emitter
  /\ hist' = NextHist(f, m)
  /\ step' = St("register", ws, <<>>, <<>>, FALSE)
  /\ UNCHANGED <<opt, ws, hs, pend, rm, tm, pm, calls, last>>
  /\ UNCHANGED ghosts
  /\ Emitted

AddListener(e, f, m) == Caller /\ Len(reg) < MaxReg /\ Register(e, f, m)

\* off and removeEventListener: deregister, detach from the live handle, super.off
Deregister(e, f) ==
  /\ \E i \in 1..Len(reg) : reg[i].ev = e /\ reg[i].fn = f
  /\ reg' = deregisterEventListener(reg, e, f)
  /\ att' = IF ws = 0 THEN att ELSE [att EXCEPT ![ws] = detachEventListener(@, e, f)]
  /\ emitter' = SelectSeq(emitter, LAMBDA x : ~(x.ev = e /\ x.fn = f))
  /\ hist' = [hist EXCEPT ![f] = "gone"]
  /\ step' = St("off()", ws, <<>>, <<>>, FALSE)
  /\ UNCHANGED <<opt, ws, hs, pend, rm, tm, pm, calls, last>>
  /\ UNCHANGED ghosts
  /\ Emitted

off(e, f) == Caller /\ Deregister(e, f)

\* ------------------------------------------------------- specifications
InitWith(o) ==
  /\ opt = o
  /\ ws = 0
  /\ hs = [h \in Handles |-> "NONE"]
  /\ att = [h \in Handles |-> <<>>]
  /\ pend = {}
  /\ reg = <<>>
  /\ emitter = <<>>
  /\ rm = ReconnectInit(ReconnectConfigs[o.reconnect])
  /\ tm = TimeoutInit(1, TRUE)
  /\ pm = [active |-> FALSE, leaked |-> 0]
  /\ step = NoStep
  /\ opened = 0
  /\ sinceOpen = 0
  /\ userClosed = FALSE
  /\ cancelled = {}
  /\ calls = [f \in Listeners |-> 0]
  /\ hist = [f \in Listeners |-> "none"]
  /\ ops = 0
  /\ last = "none"
  /\ pendingDelay = 0

\* the options of the constructor: reconnect absent, null or given, with or
\* without createWebSocket, keepalive and watchdog both configured or neither;
\* the keepalive sends a text through send() on a Transport that has ping()
Options ==
  {o \in [reconnect : {"missing", "null", "object"}, factory : BOOLEAN,
          ping : BOOLEAN, timeout : BOOLEAN, frame : {FALSE}, pingMethod : {TRUE},
          pingData : {Data("string")}] : o.ping = o.timeout}

\* the controller right after construction (automaticOpen: false; with
\* automaticOpen: true the constructor ends with the Connect step)
Init == \E o \in Options : InitWith(o)

Lifecycle ==
  \/ Connect
  \/ \E which \in {"timeoutId", "leaked"} : ReconnectFire(which)
  \/ \E h \in Handles : AwaitResolve(h)
  \/ \E h \in Handles : AwaitReject(h)
  \/ \E h \in Handles : PendingOpen(h)
  \/ \E h \in Handles : TransportOpen(h)
  \/ \E h \in Handles : \E e \in {"message", "pong"} : TransportMessage(h, e)
  \/ \E h \in Handles : TransportError(h)
  \/ \E h \in Handles : TransportClose(h)
  \/ Refresh
  \/ close
  \/ terminate
  \/ \E k \in {"reconnect", "timeout", "ping"} : updateOptions(k)

Timers ==
  \/ WatchdogFire
  \/ PingTick

Next == Lifecycle \/ Timers

Spec == Init /\ [][Next]_vars

\* the controller with caller listeners
ListenerOps ==
  \/ \E e \in ListenEvents : \E f \in Listeners :
       \E m \in {"on", "addEventListener", "once"} : AddListener(e, f, m)
  \/ \E e \in ListenEvents : \E f \in Listeners : off(e, f)

NextL == Lifecycle \/ ListenerOps

\* no keepalive and no watchdog here: no listener operation reads them
InitL == \E o \in {x \in Options : x.reconnect = "object" /\ ~x.ping /\ ~x.timeout} : InitWith(o)

SpecL == InitL /\ [][NextL]_vars

\* the controller constructed with automaticOpen: true, one event name and
\* a longer history of listener calls: three registrations and one removal
CallerO == ops < MaxOpsO /\ ops' = ops + 1

AddListenerO(f, m) == CallerO /\ Len(reg) < MaxRegO /\ Register("message", f, m)

offO(f) == CallerO /\ Deregister("message", f)

NextO ==
  \/ \E which \in {"timeoutId", "leaked"} : ReconnectFire(which)
  \/ \E h \in Handles : TransportOpen(h)
  \/ \E h \in Handles : \E e \in {"message", "pong"} : TransportMessage(h, e)
  \/ \E h \in Handles : TransportError(h)
  \/ \E h \in Handles : TransportClose(h)
  \/ \E f \in Listeners : \E m \in {"on", "addEventListener", "once"} : AddListenerO(f, m)
  \/ \E f \in Listeners : offO(f)

\* the constructor has run connect(): the first handle exists and is CONNECTING
InitO ==
  /\ opt = [reconnect |-> "object", factory |-> FALSE, ping |-> FALSE, timeout |-> FALSE,
            frame |-> FALSE, pingMethod |-> TRUE, pingData |-> Data("string")]
  /\ ws = 1
  /\ hs = [h \in Handles |-> IF h = 1 THEN "CONNECTING" ELSE "NONE"]
  /\ att = [h \in Handles |-> <<>>]
  /\ pend = {}
  /\ reg = <<>>
  /\ emitter = <<>>
  /\ rm = ReconnectInit(ReconnectConfigs["object"])
  /\ tm = TimeoutInit(1, TRUE)
  /\ pm = [active |-> FALSE, leaked |-> 0]
  /\ step = St("connect()", 1, <<>>, <<>>, TRUE)
  /\ opened = 0
  /\ sinceOpen = 0
  /\ userClosed = FALSE
  /\ cancelled = {}
  /\ calls = [f \in Listeners |-> 0]
  /\ hist = [f \in Listeners |-> "none"]
  /\ ops = 0
  /\ last = "constructed"
  /\ pendingDelay = 0

SpecO == InitO /\ [][NextO]_vars

\* the controller with send() and every keepalive configuration: ping.frame
\* set or not, a Transport with or without ping(), a text or an object as
\* ping.data; no createWebSocket and no watchdog
OptionsS ==
  [reconnect : {"null", "object"}, factory : {FALSE}, ping : {TRUE}, timeout : {FALSE},
   frame : BOOLEAN, pingMethod : BOOLEAN, pingData : {Data("string"), Data("object")}]

InitS == \E o \in OptionsS : InitWith(o)

NextS ==
  \/ Connect
  \/ \E which \in {"timeoutId", "leaked"} : ReconnectFire(which)
  \/ \E h \in Handles : TransportOpen(h)
  \/ \E h \in Handles : TransportError(h)
  \/ \E h \in Handles : TransportClose(h)
  \/ Refresh
  \/ close
  \/ \E d \in Payloads : Send(d)
  \/ PingTick

SpecS == InitS /\ [][NextS]_vars

\* createReconnectFactory on its own, its two callbacks recording the events:
\* any sequence of scheduleNextConnect, reset, stop, update and timer firings
ConfigsR ==
  [strategy : {"fibonacci", "exponential"}, initialDelay : {50, 100},
   maxDelay : {120, DefaultMaxDelay}, randomizeDelay : BOOLEAN, factor : {20, 30}]

RStep(a, em) ==
  /\ step' = St(a, 0, em, <<>>, FALSE)
  /\ UNCHANGED <<opt, ws, hs, att, pend, reg, emitter, tm, pm, calls, hist, ops, last>>
  /\ UNCHANGED ghosts
  /\ Emitted

RScheduleNextConnect ==
  /\ CanSchedule(rm)
  /\ rm' = scheduleNextConnect(rm)
  /\ \E j \in JS(rm) : RStep("scheduleNextConnect()", <<callbackStartDelay(rm, j)>>)

RReset == rm' = reconnect_reset(rm) /\ RStep("reset()", <<>>)

RStop == rm' = reconnect_stop(rm) /\ RStep("stop()", <<>>)

\* the partial configurations update() is called with
PartialsR ==
  {NoPartial,
   [NoPartial EXCEPT !.strategy = "fibonacci"],
   [NoPartial EXCEPT !.initialDelay = 100, !.factor = 30],
   [NoPartial EXCEPT !.maxDelay = 120, !.randomizeDelay = "false"]}

RUpdate(p) ==
  /\ rm' = reconnect_update(rm, p)
  /\ step' = [St("update()", 0, <<>>, <<>>, FALSE) EXCEPT !.arg = p]
  /\ UNCHANGED <<opt, ws, hs, att, pend, reg, emitter, tm, pm, calls, hist, ops, last>>
  /\ UNCHANGED ghosts
  /\ Emitted

\* a timer fires: retryNumber += 1; callbackStartConnect(retryNumber, lastConnectedMts)
RTimerFire(which) ==
  /\ rm.retryNumber < MaxRetry
  /\ IF which = "timeoutId" THEN rm.timeoutId ELSE rm.leaked > 0
  /\ rm' = IF which = "timeoutId"
           THEN [rm EXCEPT !.retryNumber = @ + 1, !.timeoutId = FALSE]
           ELSE [rm EXCEPT !.retryNumber = @ + 1, !.leaked = @ - 1]
  /\ RStep("reconnectTimer", <<Ev("connecting", rm'.retryNumber, rm'.lastConnectedMts)>>)

NextR ==
  \/ RScheduleNextConnect
  \/ RReset
  \/ RStop
  \/ \E p \in PartialsR : RUpdate(p)
  \/ \E which \in {"timeoutId", "leaked"} : RTimerFire(which)

InitR ==
  /\ opt = [reconnect |-> "object", factory |-> FALSE, ping |-> FALSE, timeout |-> FALSE,
            frame |-> FALSE, pingMethod |-> TRUE, pingData |-> Data("string")]
  /\ ws = 0
  /\ hs = [h \in Handles |-> "NONE"]
  /\ att = [h \in Handles |-> <<>>]
  /\ pend = {}
  /\ reg = <<>>
  /\ emitter = <<>>
  /\ \E c \in ConfigsR : rm = ReconnectInit(c)
  /\ tm = TimeoutInit(1, TRUE)
  /\ pm = [active |-> FALSE, leaked |-> 0]
  /\ step = NoStep
  /\ opened = 0
  /\ sinceOpen = 0
  /\ userClosed = FALSE
  /\ cancelled = {}
  /\ calls = [f \in Listeners |-> 0]
  /\ hist = [f \in Listeners |-> "none"]
  /\ ops = 0
  /\ last = "none"
  /\ pendingDelay = 0

SpecR == InitR /\ [][NextR]_vars

\* the controller constructed with automaticOpen: true, with caller listeners,
\* on a Transport whose removeEventListener, close() and terminate() may raise
NextF ==
  \/ Connect
  \/ \E F \in SUBSET (1..MaxReg) : \E c \in BOOLEAN : ConnectTeardownRaises(F, c)
  \/ \E which \in {"timeoutId", "leaked"} : ReconnectFire(which)
  \/ \E h \in Handles : TransportOpen(h)
  \/ \E h \in Handles : TransportClose(h)
  \/ \E f \in Listeners : \E m \in {"on", "addEventListener", "once"} : AddListener("close", f, m)

\* the constructor has run connect(), as in InitO
SpecF == InitO /\ [][NextF]_vars

\* createTimeoutFactory on its own, on both kinds of platform: any sequence
\* of start, reset, stop, update and timer firings, at the times Times
Times == {1, 2, 3}

TimeoutsT == {1, 2, 3}

TStep(a, em, x) ==
  /\ step' = [St(a, 0, em, <<>>, FALSE) EXCEPT !.arg = x]
  /\ UNCHANGED <<opt, ws, hs, att, pend, reg, emitter, rm, pm, calls, hist, ops, last>>
  /\ UNCHANGED ghosts
  /\ Emitted

TStart(now) == tm' = timeout_reset(tm, now) /\ TStep("start()", <<>>, now)

TReset(now) == tm' = timeout_reset(tm, now) /\ TStep("reset()", <<>>, now)

TStop == tm' = timeout_stop(tm) /\ TStep("stop()", <<>>, 0)

TUpdate(to, now) == tm' = timeout_update(tm, to, now) /\ TStep("update()", <<>>, now)

\* the timer fires: callbackTimeout(lastActiveMts)
TFire ==
  /\ tm.timeoutId = "armed"
  /\ tm' = [tm EXCEPT !.timeoutId = "fired"]
  /\ TStep("watchdog", <<Ev("timeout", 0, tm.lastActiveMts)>>, 0)

NextT ==
  \/ \E now \in Times : TStart(now)
  \/ \E now \in Times : TReset(now)
  \/ TStop
  \/ \E to \in TimeoutsT : \E now \in Times : TUpdate(to, now)
  \/ TFire

InitT ==
  /\ opt = [reconnect |-> "null", factory |-> FALSE, ping |-> FALSE, timeout |-> TRUE,
            frame |-> FALSE, pingMethod |-> TRUE, pingData |-> Data("string")]
  /\ ws = 0
  /\ hs = [h \in Handles |-> "NONE"]
  /\ att = [h \in Handles |-> <<>>]
  /\ pend = {}
  /\ reg = <<>>
  /\ emitter = <<>>
  /\ rm = ReconnectInit(ReconnectConfigs["null"])
  /\ \E to \in TimeoutsT : \E re \in BOOLEAN : tm = TimeoutInit(to, re)
  /\ pm = [active |-> FALSE, leaked |-> 0]
  /\ step = NoStep
  /\ opened = 0
  /\ sinceOpen = 0
  /\ userClosed = FALSE
  /\ cancelled = {}
  /\ calls = [f \in Listeners |-> 0]
  /\ hist = [f \in Listeners |-> "none"]
  /\ ops = 0
  /\ last = "none"
  /\ pendingDelay = 0

SpecT == InitT /\ [][NextT]_vars

\* the controller constructed with automaticOpen: true, reconnection, keepalive
\* and watchdog, on a network where every construction succeeds, every handle
\* opens unless the controller closes it first, traffic keeps the watchdog
\* from firing, and a handle closes only after the controller closed it; the
\* caller calls connect() and refresh() a bounded number of times
InitV ==
  /\ opt \in {o \in Options : o.reconnect # "null" /\ ~o.factory /\ o.ping /\ o.timeout}
  /\ ws = 1
  /\ hs = [h \in Handles |-> IF h = 1 THEN "CONNECTING" ELSE "NONE"]
  /\ att = [h \in Handles |-> <<>>]
  /\ pend = {}
  /\ reg = <<>>
  /\ emitter = <<>>
  /\ rm = ReconnectInit(ReconnectConfigs[opt.reconnect])
  /\ tm = TimeoutInit(1, TRUE)
  /\ pm = [active |-> FALSE, leaked |-> 0]
  /\ step = St("connect()", 1, <<>>, <<>>, TRUE)
  /\ opened = 0
  /\ sinceOpen = 0
  /\ userClosed = FALSE
  /\ cancelled = {}
  /\ calls = [f \in Listeners |-> 0]
  /\ hist = [f \in Listeners |-> "none"]
  /\ ops = 0
  /\ last = "constructed"
  /\ pendingDelay = 0

Constructs == \A k \in 1..Len(step'.emits) : step'.emits[k].ev # "error"

VConnect == Connect /\ Constructs

VReconnectFire(which) == ReconnectFire(which) /\ Constructs

\* the `close` of a handle the controller closed
VClose(h) == hs[h] = "CLOSING" /\ TransportClose(h)

NextV ==
  \/ VConnect
  \/ Refresh
  \/ \E which \in {"timeoutId", "leaked"} : VReconnectFire(which)
  \/ \E h \in Handles : TransportOpen(h)
  \/ \E h \in Handles : TransportMessage(h, "message")
  \/ \E h \in Handles : VClose(h)

\* a timer that stays armed fires; a handle that stays CONNECTING opens; a
\* handle that stays CLOSING closes
FairV ==
  /\ \A which \in {"timeoutId", "leaked"} : WF_vars(VReconnectFire(which))
  /\ \A h \in Handles : WF_vars(TransportOpen(h))
  /\ \A h \in Handles : WF_vars(VClose(h))

SpecV == InitV /\ [][NextV]_vars /\ FairV

\* ================================================================ claims
Range(s) == {s[i] : i \in 1..Len(s)}

TransportEvents == {"open", "message", "error", "close"}

EmittedEv(e) == {x \in Range(step.emits) : x.ev = e}

\* the last step was the current handle delivering a transport event
DeliveredByCurrent == step.act \in TransportEvents /\ ws # 0 /\ step.h = ws

\* C1: a listener registered once with on or addEventListener and never
\* removed is invoked for every event of its name that the current handle
\* delivers, on the first handle and on every replacement.
C1_ListenerContinuity ==
  DeliveredByCurrent =>
    \A i \in 1..Len(reg) :
      (reg[i].ev = step.act /\ hist[reg[i].fn] \in {"on", "addEventListener"})
        => reg[i].fn \in Range(step.invoked)

\* a listener registered with on before the first handle opened is invoked
\* by the `open` of the first handle and again by the `open` of its replacement
C1_Witness ==
  /\ DeliveredByCurrent
  /\ step.act = "open"
  /\ opened = 2
  /\ \E f \in Listeners :
       /\ hist[f] = "on"
       /\ calls[f] = 2
       /\ f \in Range(step.invoked)
       /\ \E i \in 1..Len(reg) : reg[i] = Record("open", f, "on")

\* C2: a listener registered with once for event e is invoked at most once,
\* its registry record is gone once it has been invoked, and no once record
\* for e is left after the current handle has delivered e.
C2_OnceExactlyOnce ==
  \A f \in Listeners :
    hist[f] = "once" =>
      /\ calls[f] <= 1
      /\ calls[f] = 1 => \A i \in 1..Len(reg) : reg[i].fn # f
      /\ DeliveredByCurrent => \A i \in 1..Len(reg) : ~(reg[i].fn = f /\ reg[i].ev = step.act)

\* C3: after close() or terminate(), and until the caller calls connect()
\* again, no reconnect timer fires (so no `connecting` is emitted and no
\* handle is constructed by the controller).
C3_ClosedStaysClosed ==
  userClosed => step.act # "reconnectTimer"

ReconnectPending == rm.timeoutId \/ rm.leaked > 0

KeepalivePending == pm.active \/ pm.leaked > 0

WatchdogPending == tm.timeoutId = "armed"

\* C4 (same-step part): when the current handle emits `close` while
\* reconnection is enabled and not stopped, the step leaves Keepalive and
\* Watchdog stopped and the reconnect timer armed, and emits `delay`.
C4_CloseArmsReconnect ==
  (DeliveredByCurrent /\ step.act = "close" /\ hasReconnect /\ ~rm.isStopped) =>
    /\ ~KeepalivePending
    /\ ~WatchdogPending
    /\ rm.timeoutId
    /\ EmittedEv("delay") # {}

\* C5: when close() or terminate() was called while a connect() was awaiting
\* its Transport, the handle that construction then produces is torn down
\* and reconnection stays disabled.
C5_CancelledConstruction ==
  (step.act = "resolveAfterClose" /\ userClosed) =>
    /\ hs[step.h] \in {"CLOSING", "CLOSED", "NONE"}
    /\ hasReconnect => rm.isStopped

Live(h) == Adopted(h) /\ hs[h] \in {"CONNECTING", "OPEN"}

\* C6: at most one Transport is live: every handle the controller holds or
\* has held, other than the current one, has been closed or terminated.
C6_SingleLiveHandle ==
  \A h \in Handles : Live(h) => h = ws

\* C7: between two opens the reconnect state is not reset: the k-th
\* `connecting` since the last open carries retry number k.
C7_RetryNumbersCount ==
  (step.act = "reconnectTimer" /\ sinceOpen <= MaxRetry) =>
    \A x \in EmittedEv("connecting") : x.n = sinceOpen

\* C8: when the current handle opens, `reconnected` is emitted if and only if
\* a connection had opened before, once, and with a retry number of at least 1.
C8_ReconnectedIffEarlier ==
  (DeliveredByCurrent /\ step.act = "open" /\ hasReconnect) =>
    /\ (opened >= 2) <=> (EmittedEv("reconnected") # {})
    /\ \A x \in EmittedEv("reconnected") : x.n >= 1
    /\ Len(step.emits) <= 1

\* C9: the keepalive and watchdog timers are pending exactly while the
\* current handle is OPEN.
C9_TimersIffOpen ==
  /\ hasPing => (KeepalivePending <=> isWebSocketOpen)
  /\ hasTimeout => (WatchdogPending <=> isWebSocketOpen)

\* C10: a reconnect timer is pending only if reconnection is enabled, the
\* last lifecycle transition was a failed connect or a close of the current
\* handle, and close()/terminate() was not called since; none is pending
\* while the current handle is OPEN, and one is pending after an unrequested
\* close.
C10_ReconnectTimerIff ==
  /\ ReconnectPending => (hasReconnect /\ last \in {"failed", "close"} /\ ~userClosed)
  /\ isWebSocketOpen => ~ReconnectPending
  /\ (hasReconnect /\ last = "close" /\ ~userClosed) => ReconnectPending

\* C11: connect() called while the current handle is OPEN changes nothing:
\* the handle, the attachments, the constructions in flight, the registry,
\* the reconnect state and the keepalive and watchdog timers stay as they
\* are, and no Transport is constructed.
C11_ConnectNoOpWhenOpen ==
  [][(ws # 0 /\ hs[ws] = "OPEN" /\ step'.act = "connect()")
       => (UNCHANGED <<ws, hs, att, pend, reg, emitter, rm, tm, pm>> /\ ~step'.built)]_vars

\* connect() has just returned early on an OPEN handle whose keepalive and
\* watchdog are running
C11_Witness ==
  /\ step.act = "connect()"
  /\ ws # 0 /\ hs[ws] = "OPEN"
  /\ pm.active
  /\ tm.timeoutId = "armed"

EmittedIn(s, e) == \E i \in 1..Len(s.emits) : s.emits[i].ev = e

\* the step s ran the catch block of connect()
ConstructionFailure(s) ==
  s.act \in {"connect()", "reconnectTimer", "reject"} /\ EmittedIn(s, "error")

\* C12: when construction fails inside connect(), connect() does not throw,
\* emits `error`, leaves the handle absent, gives hooks to no handle, and
\* arms the reconnect timer (emitting `delay`) exactly when reconnection is
\* enabled and was not stopped.
C12_ConstructionFailure ==
  [][ConstructionFailure(step') =>
       /\ ~step'.threw
       /\ ws' = 0
       /\ \A h \in Handles : Adopted(h)' => Adopted(h)
       /\ (rm'.timeoutId /\ EmittedIn(step', "delay")) <=> (hasReconnect /\ ~rm.isStopped)]_vars

\* a createWebSocket promise has just rejected and the reconnect timer was armed
C12_Witness ==
  /\ step.act = "reject"
  /\ EmittedIn(step, "error")
  /\ EmittedIn(step, "delay")
  /\ rm.timeoutId
  /\ ws = 0

\* C13: no open/message/close/error event of a handle is delivered before
\* the controller has given that handle its lifecycle hooks, and the current
\* handle delivers an event to every listener registered for it (with on or
\* addEventListener, once, and not removed).
C13_AttachedBeforeEvents ==
  step.act \in TransportEvents =>
    /\ step.h \notin pend
    /\ C1_ListenerContinuity

\* the listeners of the registry records of event e, in array order
RegistryOrder(R, e) ==
  LET s == SelectSeq(R, LAMBDA r : r.ev = e)
  IN [k \in 1..Len(s) |-> s[k].fn]

\* in sequence s the first x comes before the first y
Before(s, x, y) ==
  /\ IndexOf(s, {x}, 1) # 0
  /\ IndexOf(s, {y}, 1) # 0
  /\ IndexOf(s, {x}, 1) < IndexOf(s, {y}, 1)

\* C14: whatever on/addEventListener/once/off calls and reconnects came
\* before, the current handle invokes the listeners of an event in the order
\* of their registration: if it invokes x before y, and both are in the
\* registry, then x is registered before y.
C14_RegistrationOrder ==
  [][DeliveredByCurrent' =>
       \A x, y \in Listeners :
         (/\ Before(step'.invoked, x, y)
          /\ IndexOf(RegistryOrder(reg, step'.act), {x}, 1) # 0
          /\ IndexOf(RegistryOrder(reg, step'.act), {y}, 1) # 0)
           => Before(RegistryOrder(reg, step'.act), x, y)]_vars

\* the number of registry records of listener f for event e
Records(R, e, f) == Cardinality({i \in 1..Len(R) : R[i].ev = e /\ R[i].fn = f})

\* listener f is attached to handle h for event e
Attached(A, h, e, f) ==
  \E i \in 1..Len(A[h]) : A[h][i].ev = e /\ A[h][i].fn = f /\ A[h][i].kind # "remover"

\* C15: after off(e, f) or removeEventListener(e, f), no record of f for e
\* is left in the registry, so no later handle gets f, and f is not attached
\* to the live handle; with no handle the call still clears the registry
\* and does not throw.
C15_OffRemoves ==
  [][step'.act = "off()" =>
       /\ ~step'.threw
       /\ \A e \in ListenEvents : \A f \in Listeners :
            Records(reg', e, f) < Records(reg, e, f) =>
              /\ Records(reg', e, f) = 0
              /\ ws' # 0 => ~Attached(att', ws', e, f)]_vars

\* C16 (the step of the firing): when the watchdog fires while the current
\* handle is OPEN, the controller emits `timeout` with the time of the last
\* open, message or pong of the current handle and closes that handle.
C16_WatchdogFires ==
  [][(step'.act = "watchdog" /\ ws # 0 /\ hs[ws] = "OPEN") =>
       /\ ~step'.threw
       /\ step'.emits = <<Ev("timeout", 0, ws)>>
       /\ hs'[ws] = "CLOSING"]_vars

\* C17: refresh() closes the current handle and leaves the reconnect state
\* (stopped flag, retryNumber, timers) and the registry as they are; when
\* the close event of that handle follows, the reconnect timer is armed and
\* `delay` emitted exactly when reconnection is enabled and not stopped.
C17_RefreshKeepsReconnect ==
  [][/\ (step'.act = "refresh()" /\ ws # 0) =>
          /\ ~step'.threw
          /\ UNCHANGED <<ws, rm, reg, att, emitter>>
          /\ hs'[ws] \notin {"CONNECTING", "OPEN"}
     /\ (step.act = "refresh()" /\ ws # 0 /\ step'.act = "close" /\ step'.h = ws) =>
          ((rm'.timeoutId /\ EmittedIn(step', "delay")) <=> (hasReconnect /\ ~rm.isStopped))]_vars

\* refresh() has just closed a handle that was open, with reconnection
\* enabled and not stopped and the keepalive still running
C17_Witness ==
  /\ step.act = "refresh()"
  /\ ws # 0
  /\ hs[ws] = "CLOSING"
  /\ opened >= 1
  /\ hasReconnect
  /\ ~rm.isStopped
  /\ pm.active

\* C18: terminate() tears down like close(): after it no keepalive, watchdog
\* or reconnect timer is pending and the scheduler is stopped; the handle,
\* if there is one, is terminated or closed, and the call does not throw.
C18_TerminateTearsDown ==
  step.act = "terminate()" =>
    /\ ~step.threw
    /\ ~KeepalivePending
    /\ ~WatchdogPending
    /\ ~ReconnectPending
    /\ hasReconnect => rm.isStopped
    /\ ws # 0 => hs[ws] \notin {"CONNECTING", "OPEN"}

\* C19: every `connecting(n, ts)` follows a `delay(n, d)` with the same
\* retry number, at least 1, with no other `connecting` between the two, and
\* is emitted in the step that runs the connect routine.
C19_DelayBeforeConnecting ==
  [][\A i \in 1..Len(step'.emits) :
       step'.emits[i].ev = "connecting" =>
         /\ step'.act = "reconnectTimer"
         /\ step'.emits[i].n >= 1
         /\ step'.emits[i].n = pendingDelay]_vars

\* C20: once a connection has opened, the lastConnectedMts the scheduler
\* keeps for `connecting` and `reconnected` takes a new value only when the
\* open current handle closes, and is cleared only when a handle opens (or
\* the caller updates the reconnect options).
C20_LastConnectedKept ==
  [][(opened >= 1 /\ rm'.lastConnectedMts # rm.lastConnectedMts) =>
       \/ step'.act = "close" /\ step'.h = ws /\ last = "open" /\ rm'.lastConnectedMts # 0
       \/ step'.act \in {"open", "updateReconnect"} /\ rm'.lastConnectedMts = 0]_vars

\* C21: send(data) with no handle, or with a handle that is not OPEN, raises
\* to the caller, transmits nothing, and leaves the handle, the timers, the
\* reconnect state and the listener registry as they were.
C21_SendFailsWhenNotOpen ==
  [][(step'.act = "send()" /\ (ws = 0 \/ hs[ws] # "OPEN")) =>
       /\ step'.threw
       /\ step'.sent = <<>>
       /\ UNCHANGED <<ws, hs, att, pend, reg, emitter, rm, tm, pm>>]_vars

\* C22: send(data) hands the JSON text of a structured payload to the handle,
\* and hands a primitive or a binary payload to it unchanged.
C22_SendSerializesStructured ==
  \A i \in 1..Len(step.sent) :
    step.act = "send()" =>
      step.sent[i].data = IF step.sent[i].arg.kind \in {"object", "array"}
                          THEN JSONstringify(step.sent[i].arg)
                          ELSE step.sent[i].arg

C23_ReconnectDisabled ==
  opt.reconnect \in {"missing", "null"} =>
    /\ step.act # "reconnectTimer"
    /\ ~EmittedIn(step, "delay")
    /\ ~EmittedIn(step, "connecting")

\* C27: when the reconnect options do not specify randomizeDelay, every delay
\* reported by `delay` is min(currentDelay, maxDelay) exactly.
C27_NoJitterByDefault ==
  opt.reconnect = "missing" =>
    \A i \in 1..Len(step.emits) :
      step.emits[i].ev = "delay" => step.emits[i].v = Min(rm.delay, rm._maxDelay)

RECURSIVE Fib(_)
Fib(k) == IF k <= 2 THEN 1 ELSE Fib(k - 1) + Fib(k - 2)

\* the k-th term of the strategy's recurrence, _factor being in tenths
Backoff(r, k) ==
  IF r._strategy = "fibonacci" THEN r._initialDelay * Fib(k)
  ELSE (r._initialDelay * (r._factor ^ (k - 1))) \div (10 ^ (k - 1))

DelayEvents == {x \in Range(step.emits) : x.ev = "delay"}

\* C25: with jitter off, the k-th scheduleNextConnect() since the last reset()
\* reports (and arms) min(S_k, maxDelay), S being initialDelay, initialDelay,
\* then sums of the previous two (fibonacci) or initialDelay * factor^(k-1)
\* (exponential).
C25_BackoffSequence ==
  ~rm._randomizeDelay =>
    \A x \in DelayEvents : x.v = Min(Backoff(rm, rm.scheduled), rm._maxDelay)

\* the fourth consecutive call of a fibonacci backoff from 50: 150 unclamped
C25_Witness ==
  /\ step.act = "scheduleNextConnect()"
  /\ ~rm._randomizeDelay /\ rm._strategy = "fibonacci" /\ rm._initialDelay = 50
  /\ rm.scheduled = 4
  /\ \E x \in DelayEvents : x.v = 150

\* C26: the delay before jitter never exceeds maxDelay: a reported delay is
\* at most maxDelay, or with jitter at most maxDelay with the largest jitter.
C26_DelayClamped ==
  \A x \in DelayEvents :
    x.v <= IF rm._randomizeDelay THEN Randomized(rm._maxDelay, 10) ELSE rm._maxDelay

\* a call whose current delay is beyond maxDelay
C26_Witness ==
  /\ step.act = "scheduleNextConnect()"
  /\ DelayEvents # {}
  /\ rm.delay > rm._maxDelay

\* the reconnect timers armed and neither fired nor cleared
Outstanding(r) == (IF r.timeoutId THEN 1 ELSE 0) + r.leaked

\* C28: at most one reconnect timer is outstanding, and none is once stop()
\* or reset() has returned.
C28_OneTimer ==
  /\ Outstanding(rm) <= 1
  /\ step.act \in {"stop()", "reset()"} => Outstanding(rm) = 0

\* C29: after reset() retryNumber, previousDelay and currentDelay are 0,
\* nextDelay is initialDelay, lastConnectedAt is absent, no timer is pending,
\* and a second reset() changes nothing.
C29_Reset ==
  step.act = "reset()" =>
    /\ rm.retryNumber = 0 /\ rm.previousDelay = 0 /\ rm.delay = 0
    /\ rm.nextDelay = rm._initialDelay
    /\ rm.lastConnectedMts = 0
    /\ Outstanding(rm) = 0
    /\ reconnect_reset(rm) = rm

\* C30: stop() leaves no timer pending and the manager stopped, keeps
\* retryNumber, previousDelay, currentDelay, nextDelay and lastConnectedAt,
\* and a second stop() changes nothing.
C30_Stop ==
  [][step'.act = "stop()" =>
       /\ rm'.isStopped
       /\ Outstanding(rm') = 0
       /\ rm'.retryNumber = rm.retryNumber /\ rm'.previousDelay = rm.previousDelay
       /\ rm'.delay = rm.delay /\ rm'.nextDelay = rm.nextDelay
       /\ rm'.lastConnectedMts = rm.lastConnectedMts
       /\ reconnect_stop(rm') = rm']_vars

\* C31: update(p) replaces the configuration fields p supplies and keeps the
\* others, and afterwards retryNumber is 0, no timer is pending and the next
\* delay is the initialDelay now configured.
C31_Update ==
  [][step'.act = "update()" =>
       LET p == step'.arg
       IN /\ rm'._strategy = IF p.strategy = "" THEN rm._strategy ELSE p.strategy
          /\ rm'._initialDelay = IF p.initialDelay = 0 THEN rm._initialDelay ELSE p.initialDelay
          /\ rm'._maxDelay = IF p.maxDelay = 0 THEN rm._maxDelay ELSE p.maxDelay
          /\ rm'._randomizeDelay = IF p.randomizeDelay = "" THEN rm._randomizeDelay
                                   ELSE p.randomizeDelay = "true"
          /\ rm'._factor = IF p.factor = 0 THEN rm._factor ELSE p.factor
          /\ rm'.retryNumber = 0
          /\ Outstanding(rm') = 0
          /\ rm'.nextDelay = rm'._initialDelay /\ rm'.delay = 0 /\ rm'.previousDelay = 0]_vars

\* C32: after start() or reset() at time T the watchdog is armed to fire at
\* T + timeout; firing does not re-arm it; after stop() it is not armed.
C32_WatchdogTiming ==
  /\ step.act \in {"start()", "reset()"} =>
       tm.timeoutId = "armed" /\ tm.lastActiveMts = step.arg /\ tm.dur = tm._timeout
  /\ step.act = "watchdog" => tm.timeoutId = "fired"
  /\ step.act = "stop()" => tm.timeoutId = "null"

\* when the watchdog fires, seen from outside: whether it is armed, since
\* when and for how long
Firing(t) == <<t.timeoutId = "armed", t.lastActiveMts, t.dur>>

\* C33: start, reset and update arm the watchdog as cancelling the timer and
\* creating a new one with the current timeout does, whichever way the
\* platform re-arms; after update({ timeout: t2 }) it fires t2 after the update.
C33_RearmEquivalence ==
  [][step'.act \in {"start()", "reset()", "update()"} =>
       Firing(tm') = Firing(cancelAndRecreate([tm EXCEPT !._timeout = tm'._timeout], step'.arg))]_vars

\* C37: while the watchdog timer is pending a current handle exists, and the
\* refresh() of the timeout callback never raises.
C37_WatchdogHasHandle ==
  /\ tm.timeoutId = "armed" => ws # 0
  /\ step.act = "watchdog" => ~step.threw

Count(s, x) == Cardinality({k \in 1..Len(s) : s[k] = x})

\* C34: when detaching listeners from the old handle or closing it raises,
\* connect() does not raise; the old handle keeps no listener that a teardown
\* without errors detaches, other than those whose detachment raised; the
\* registry is kept; and connect() goes on
\* to construct a Transport, adopting it with the registry replayed, or
\* reporting the construction failure with no current handle.
C34_TeardownBestEffort ==
  [][(step'.act = "connect()" /\ step'.arg # <<>>) =>
       LET F == step'.arg[1]
       IN /\ ~step'.threw
          /\ reg' = reg
          /\ ws' # ws =>
               \A x \in Range(att'[ws]) :
                 (x.kind # "remover" /\ Count(att'[ws], x) > Count(DetachAll(att[ws], reg, 1), x))
                   => \E i \in F : reg[i].ev = x.ev /\ reg[i].fn = x.fn
          /\ IF step'.built
             THEN /\ ws' # 0 /\ hs'[ws'] = "CONNECTING"
                  /\ att'[ws'] = reattachEventListeners(<<>>, reg, 1)
             ELSE ws' = 0 /\ EmittedIn(step', "error")]_vars

\* removeEventListener raised for one of two registered listeners and the
\* replacement handle was adopted
C34_Witness ==
  /\ step.act = "connect()" /\ step.arg # <<>>
  /\ step.arg[1] # {} /\ Len(reg) = 2 /\ Cardinality(step.arg[1]) = 1
  /\ step.built /\ ws # 0 /\ hs[ws] = "CONNECTING"

\* C35: an event delivered by an adopted handle that is not the current one
\* changes neither the reconnect manager, the keepalive, the watchdog nor
\* the listener registry, and makes the controller emit nothing.
C35_StaleEventsInert ==
  [][(step'.act \in TransportEvents /\ step'.h # ws /\ step'.h \notin pend)
       => /\ rm' = rm /\ tm' = tm /\ pm' = pm
          /\ reg' = reg
          /\ step'.emits = <<>>]_vars

\* C38: no keepalive interval is running besides the one stop() can cancel,
\* and no interval ticks while the keepalive is stopped.
C38_OneInterval ==
  /\ pm.leaked = 0
  /\ step.act = "pingTick" => pm.active

\* the sequence R without the records at the positions D
RECURSIVE Without(_, _, _)
Without(R, D, i) ==
  IF i > Len(R) THEN <<>>
  ELSE (IF i \in D THEN <<>> ELSE <<R[i]>>) \o Without(R, D, i + 1)

\* C39: the registry changes only by a registration appending one record, by
\* off/removeEventListener removing one record, or by the current handle
\* delivering an event and the once records of that event being removed.
C39_RegistryFrame ==
  [][reg' # reg =>
       \/ /\ step'.act = "register"
          /\ Len(reg') = Len(reg) + 1
          /\ SubSeq(reg', 1, Len(reg)) = reg
       \/ /\ step'.act = "off()"
          /\ \E i \in 1..Len(reg) : reg' = Without(reg, {i}, 1)
       \/ /\ step'.act \in TransportEvents
          /\ step'.h = ws
          /\ \E D \in SUBSET {i \in 1..Len(reg) : reg[i].once /\ reg[i].ev = step'.act} :
               reg' = Without(reg, D, 1)]_vars

\* the attachments of listener f (removers aside) on handle h
AttachedAt(h, f) == {k \in 1..Len(att[h]) : att[h][k].fn = f /\ att[h][k].kind # "remover"}

\* C36: a listener registered once with on, its record in the registry, is
\* attached exactly once to the current handle and to no other adopted handle,
\* and an event invokes it at most once.
C36_AttachedOnce ==
  \A f \in Listeners :
    (hist[f] = "on" /\ \E i \in 1..Len(reg) : reg[i].fn = f) =>
      /\ ws # 0 => Cardinality(AttachedAt(ws, f)) = 1
      /\ \A h \in Handles : (Adopted(h) /\ h # ws) => AttachedAt(h, f) = {}
      /\ Cardinality({k \in 1..Len(step.invoked) : step.invoked[k] = f}) <= 1

\* the current handle is OPEN, keepalive and watchdog run, no reconnect timer
\* is pending and the backoff is at its start
Stable ==
  /\ isWebSocketOpen
  /\ pm.active /\ tm.timeoutId = "armed"
  /\ ~rm.timeoutId /\ rm.leaked = 0
  /\ rm.retryNumber = 0

\* C40: once the caller has stopped calling, with fair timers and transport
\* events and handles that open unless the controller closes them, the
\* controller reaches a stable state and stays in it.
C40_Convergence == <>[]Stable
====
